---- MODULE Spec2Model ----
(***************************************************************************)
(* Model of the VPC Endpoint Service resource                              *)
(* (aws/resource_aws_vpc_endpoint_service.go) and of the Read handler of   *)
(* the S3 object copy resource (aws/resource_aws_s3_object_copy.go).       *)
(*                                                                         *)
(* One handler runs at a time on one resource instance.  Every remote call *)
(* draws its response with \E from the responses the API can give.  Time   *)
(* is counted in milliseconds and advances only while the poller sleeps.   *)
(***************************************************************************)
EXTENDS Integers, Sequences, FiniteSets, TLC

VARIABLES
    rtype,      \* "vpc" | "s3": the resource type of the instance
    op,         \* the handler in progress: "none", "create", "read", "update", "delete", "diff"
    pc,         \* position inside the handler
    d,          \* *schema.ResourceData: [id, old, new]
    written,    \* attribute names passed to d.Set by the handler in progress
    req,        \* the request the handler built last
    calls,      \* remote calls issued by the handler in progress, in order
    result,     \* what the handler returned: NotReturned, Ok or an error record
    elapsed,    \* ms since WaitForState was entered
    wait,       \* ms the refresh loop sleeps before its next refresh
    lastState,  \* state label of the last refresh of the poll
    lastResp,   \* response of the describe call of that refresh
    firstAt     \* value of elapsed at the first refresh of the poll, -1 before it

vars == <<rtype, op, pc, d, written, req, calls, result, elapsed, wait, lastState,
          lastResp, firstAt>>

----------------------------------------------------------------------------
(* Bounds of the model *)

NumPrincipals == 3
NumArns == 1
MaxChanged == 1

Principals == 1..NumPrincipals      \* opaque principal ARNs
Arns == 1..NumArns                  \* opaque load balancer ARNs

----------------------------------------------------------------------------
(* Values *)

SvcId == "vpce-svc-1"
S3Id == "s3-key-1"

ServiceStatePending == "Pending"
ServiceStateAvailable == "Available"
ServiceStateDeleting == "Deleting"
ServiceStateDeleted == "Deleted"
ServiceStateFailed == "Failed"

ServiceStates ==
    {ServiceStatePending, ServiceStateAvailable, ServiceStateDeleting,
     ServiceStateDeleted, ServiceStateFailed}

\* Outcomes of DescribeVpcEndpointServiceConfigurations for one service id:
\* the state of the one configuration returned, or an error.  (A response
\* without error holds the configuration asked for: ServiceConfigurations[0]
\* is read unchecked.)
DescribeResponses == ServiceStates \cup {"NotFound", "ApiError"}

\* Outcomes of the other EC2 calls.
DeleteResponses == {"ok", "NotFound", "ApiError"}
CallResponses == {"ok", "ApiError"}

\* Outcomes of s3.HeadObject.
HeadObjectResponses == {"ok", "404", "ApiError"}

NotReturned == [kind |-> "running"]
Ok == [kind |-> "nil"]

\* An error value: the format string that produced it, whether the message
\* carries d.Id(), the error it wraps and the state label in its text.
Err(msg, id, cause, label) ==
    [kind |-> "error", msg |-> msg, id |-> id, cause |-> cause, label |-> label]

\* A slice field of a request: nil unless assigned.
NilList == [set |-> FALSE, items |-> <<>>]
List(s) == [set |-> TRUE, items |-> s]

ZeroAttrs ==
    [acceptance_required |-> FALSE,
     private_dns_name |-> "",
     gateway_load_balancer_arns |-> {},
     network_load_balancer_arns |-> {},
     allowed_principals |-> {},
     tags |-> 0]

NoReq == [api |-> "none"]

Range(s) == {s[i] : i \in 1..Len(s)}

----------------------------------------------------------------------------
(* Helpers of the provider and of the plugin SDK *)

\* schema.Set.Difference
Difference(a, b) == a \ b

\* expandStringSet: the members of the set as a slice, in the set's order
\* (ascending here, standing for the order of the members' hash codes).
RECURSIVE expandStringSet(_)
expandStringSet(s) ==
    IF s = {} THEN <<>>
    ELSE LET m == CHOOSE x \in s : \A y \in s : x <= y
         IN <<m>> \o expandStringSet(s \ {m})

\* d.HasChange(key)
HasChange(rd, key) == rd.old[key] # rd.new[key]

\* d.HasChanges(keys...)
HasChanges(rd, keys) == \E k \in keys : HasChange(rd, k)

\* d.GetOk(key) on a set-valued or string attribute: ok iff the value is not
\* the zero value.
GetOkSet(rd, key) == rd.new[key] # {}
GetOkString(rd, key) == rd.new[key] # ""

----------------------------------------------------------------------------
(* Building requests *)

\* setVpcEndpointServiceUpdateLists with the operands of the two Difference
\* calls exchanged.
setVpcEndpointServiceUpdateLists_Swapped(rd, key, a, r) ==
    IF HasChange(rd, key)
    THEN LET os == rd.old[key]
             ns == rd.new[key]
             add == expandStringSet(Difference(os, ns))
             remove == expandStringSet(Difference(ns, os))
         IN [a |-> IF Len(add) > 0 THEN List(add) ELSE a,
             r |-> IF Len(remove) > 0 THEN List(remove) ELSE r]
    ELSE [a |-> a, r |-> r]

\* setVpcEndpointServiceUpdateLists assigning both lists of a changed field
\* without the len(add) > 0 and len(remove) > 0 tests.
setVpcEndpointServiceUpdateLists_AlwaysSet(rd, key, a, r) ==
    IF HasChange(rd, key)
    THEN LET os == rd.old[key]
             ns == rd.new[key]
             add == expandStringSet(Difference(ns, os))
             remove == expandStringSet(Difference(os, ns))
         IN [a |-> List(add), r |-> List(remove)]
    ELSE [a |-> a, r |-> r]

\* setVpcEndpointServiceUpdateLists(d, key, a, r): the values of *a and *r
\* after the call, given their values before it.
setVpcEndpointServiceUpdateLists(rd, key, a, r) ==
    IF HasChange(rd, key)
    THEN LET os == rd.old[key]
             ns == rd.new[key]
             add == expandStringSet(Difference(ns, os))
             remove == expandStringSet(Difference(os, ns))
         IN [a |-> IF Len(add) > 0 THEN List(add) ELSE a,
             r |-> IF Len(remove) > 0 THEN List(remove) ELSE r]
    ELSE [a |-> a, r |-> r]

\* An optional scalar field of a request: nil unless assigned.
NilValue == [set |-> FALSE]
Value(v) == [set |-> TRUE, value |-> v]

\* The ec2.CreateVpcEndpointServiceConfigurationInput built by Create.
CreateRequest(rd) ==
    [api |-> "CreateVpcEndpointServiceConfiguration",
     AcceptanceRequired |-> Value(rd.new.acceptance_required),
     TagSpecifications |-> rd.new.tags,
     PrivateDnsName |->
         IF GetOkString(rd, "private_dns_name")
         THEN Value(rd.new.private_dns_name) ELSE NilValue,
     GatewayLoadBalancerArns |->
         IF GetOkSet(rd, "gateway_load_balancer_arns")
         THEN List(expandStringSet(rd.new.gateway_load_balancer_arns)) ELSE NilList,
     NetworkLoadBalancerArns |->
         IF GetOkSet(rd, "network_load_balancer_arns")
         THEN List(expandStringSet(rd.new.network_load_balancer_arns)) ELSE NilList]

\* CreatePermissionsRequest with an empty, non-nil remove list.
CreatePermissionsRequest_EmptyRemove(rd) ==
    [api |-> "ModifyVpcEndpointServicePermissions",
     ServiceId |-> rd.id,
     AddAllowedPrincipals |-> List(expandStringSet(rd.new.allowed_principals)),
     RemoveAllowedPrincipals |-> List(<<>>)]

\* The ec2.ModifyVpcEndpointServicePermissionsInput built by Create.
CreatePermissionsRequest(rd) ==
    [api |-> "ModifyVpcEndpointServicePermissions",
     ServiceId |-> rd.id,
     AddAllowedPrincipals |-> List(expandStringSet(rd.new.allowed_principals)),
     RemoveAllowedPrincipals |-> NilList]

\* UpdateConfigurationRequest setting AcceptanceRequired whether or not it
\* changed, as CreateRequest does.
UpdateConfigurationRequest_AlwaysAcceptance(rd) ==
    LET g == setVpcEndpointServiceUpdateLists(rd, "gateway_load_balancer_arns",
                                               NilList, NilList)
        n == setVpcEndpointServiceUpdateLists(rd, "network_load_balancer_arns",
                                               NilList, NilList)
    IN [api |-> "ModifyVpcEndpointServiceConfiguration",
        ServiceId |-> rd.id,
        PrivateDnsName |->
            IF HasChange(rd, "private_dns_name")
            THEN Value(rd.new.private_dns_name) ELSE NilValue,
        AcceptanceRequired |-> Value(rd.new.acceptance_required),
        AddGatewayLoadBalancerArns |-> g.a,
        RemoveGatewayLoadBalancerArns |-> g.r,
        AddNetworkLoadBalancerArns |-> n.a,
        RemoveNetworkLoadBalancerArns |-> n.r]

\* The ec2.ModifyVpcEndpointServiceConfigurationInput built by Update.
UpdateConfigurationRequest(rd) ==
    LET g == setVpcEndpointServiceUpdateLists(rd, "gateway_load_balancer_arns",
                                               NilList, NilList)
        n == setVpcEndpointServiceUpdateLists(rd, "network_load_balancer_arns",
                                               NilList, NilList)
    IN [api |-> "ModifyVpcEndpointServiceConfiguration",
        ServiceId |-> rd.id,
        PrivateDnsName |->
            IF HasChange(rd, "private_dns_name")
            THEN Value(rd.new.private_dns_name) ELSE NilValue,
        AcceptanceRequired |->
            IF HasChange(rd, "acceptance_required")
            THEN Value(rd.new.acceptance_required) ELSE NilValue,
        AddGatewayLoadBalancerArns |-> g.a,
        RemoveGatewayLoadBalancerArns |-> g.r,
        AddNetworkLoadBalancerArns |-> n.a,
        RemoveNetworkLoadBalancerArns |-> n.r]

\* UpdatePermissionsRequest sending the whole new set as the add list, as
\* Create does.
UpdatePermissionsRequest_WholeSet(rd) ==
    [api |-> "ModifyVpcEndpointServicePermissions",
     ServiceId |-> rd.id,
     AddAllowedPrincipals |-> List(expandStringSet(rd.new.allowed_principals)),
     RemoveAllowedPrincipals |-> NilList]

\* The ec2.ModifyVpcEndpointServicePermissionsInput built by Update.
UpdatePermissionsRequest(rd) ==
    LET p == setVpcEndpointServiceUpdateLists(rd, "allowed_principals",
                                               NilList, NilList)
    IN [api |-> "ModifyVpcEndpointServicePermissions",
        ServiceId |-> rd.id,
        AddAllowedPrincipals |-> p.a,
        RemoveAllowedPrincipals |-> p.r]

\* An entry of the call log: the API called, the code that called it, the
\* request sent and the response ("" for the refreshes of a poll, whose
\* last response is lastResp).
Call(api, by, arg, resp) == [api |-> api, by |-> by, arg |-> arg, resp |-> resp]

DescribeCall(by, id, resp) ==
    Call("DescribeVpcEndpointServiceConfigurations", by, [ServiceIds |-> <<id>>], resp)

----------------------------------------------------------------------------
(* The state refresh function and the two waits *)

NoErr == "nil"

\* vpcEndpointServiceStateRefresh without the InvalidVpcEndpointServiceId.NotFound
\* case.
vpcEndpointServiceStateRefresh_NoNotFound(resp) ==
    IF resp \in {"NotFound", "ApiError"}
    THEN [res |-> "nil", state |-> "", err |-> "api error"]
    ELSE IF resp = ServiceStateFailed
    THEN [res |-> "nil", state |-> resp,
          err |-> "VPC Endpoint Service is in a failed state"]
    ELSE [res |-> "svcCfg", state |-> resp, err |-> NoErr]

\* vpcEndpointServiceStateRefresh reporting the failed state with the error
\* of a failed describe call.
vpcEndpointServiceStateRefresh_FailedAsApiError(resp) ==
    IF resp = "NotFound"
    THEN [res |-> "false", state |-> ServiceStateDeleted, err |-> NoErr]
    ELSE IF resp = "ApiError"
    THEN [res |-> "nil", state |-> "", err |-> "api error"]
    ELSE IF resp = ServiceStateFailed
    THEN [res |-> "nil", state |-> resp, err |-> "api error"]
    ELSE [res |-> "svcCfg", state |-> resp, err |-> NoErr]

\* vpcEndpointServiceStateRefresh: what the refresh function returns for a
\* response of DescribeVpcEndpointServiceConfigurations.
vpcEndpointServiceStateRefresh(resp) ==
    IF resp = "NotFound"
    THEN [res |-> "false", state |-> ServiceStateDeleted, err |-> NoErr]
    ELSE IF resp = "ApiError"
    THEN [res |-> "nil", state |-> "", err |-> "api error"]
    ELSE IF resp = ServiceStateFailed
    THEN [res |-> "nil", state |-> resp,
          err |-> "VPC Endpoint Service is in a failed state"]
    ELSE [res |-> "svcCfg", state |-> resp, err |-> NoErr]

Timeout == 600000
Delay == 5000
MinTimeout == 5000

\* AvailableConf with the Pending list of the deletion wait.
AvailableConf_PendingDeleting ==
    [Pending |-> {ServiceStatePending, ServiceStateDeleting},
     Target |-> {ServiceStateAvailable},
     Timeout |-> Timeout,
     Delay |-> Delay,
     MinTimeout |-> MinTimeout]

\* AvailableConf with a Timeout of 5 seconds.
AvailableConf_ShortTimeout ==
    [Pending |-> {ServiceStatePending},
     Target |-> {ServiceStateAvailable},
     Timeout |-> MinTimeout,
     Delay |-> Delay,
     MinTimeout |-> MinTimeout]

\* AvailableConf without a Delay.
AvailableConf_NoDelay ==
    [Pending |-> {ServiceStatePending},
     Target |-> {ServiceStateAvailable},
     Timeout |-> Timeout,
     Delay |-> 0,
     MinTimeout |-> MinTimeout]

\* The resource.StateChangeConf of vpcEndpointServiceWaitUntilAvailable.
AvailableConf ==
    [Pending |-> {ServiceStatePending},
     Target |-> {ServiceStateAvailable},
     Timeout |-> Timeout,
     Delay |-> Delay,
     MinTimeout |-> MinTimeout]

\* DeletionConf with `deleting` among the Target labels.
DeletionConf_TargetDeleting ==
    [Pending |-> {ServiceStateAvailable},
     Target |-> {ServiceStateDeleting, ServiceStateDeleted},
     Timeout |-> Timeout,
     Delay |-> Delay,
     MinTimeout |-> MinTimeout]

\* The resource.StateChangeConf of waitForVpcEndpointServiceDeletion.
DeletionConf ==
    [Pending |-> {ServiceStateAvailable, ServiceStateDeleting},
     Target |-> {ServiceStateDeleted},
     Timeout |-> Timeout,
     Delay |-> Delay,
     MinTimeout |-> MinTimeout]

\* The configuration of the wait the handler in progress runs.
Conf == IF op = "delete" THEN DeletionConf ELSE AvailableConf

----------------------------------------------------------------------------
(* Inputs of the handlers *)

CfgKeys ==
    {"acceptance_required", "gateway_load_balancer_arns",
     "network_load_balancer_arns", "private_dns_name"}

AttrValues ==
    [acceptance_required : BOOLEAN,
     private_dns_name : {"", "dns"},
     gateway_load_balancer_arns : SUBSET Arns,
     network_load_balancer_arns : SUBSET Arns,
     allowed_principals : SUBSET Principals,
     tags : {0, 1}]

\* The configuration fields on which two attribute records differ.
CfgDiff(o, n) == {k \in CfgKeys : o[k] # n[k]}

\* The configurations a Create is given: any allowed_principals, and at most
\* one configuration field that is not the zero value.
CreateInputs ==
    {n \in AttrValues : n.tags = 0 /\ Cardinality(CfgDiff(ZeroAttrs, n)) <= 1}

\* The state an Update starts from: a network load balancer service.
BaseAttrs(ap) ==
    [ZeroAttrs EXCEPT !.network_load_balancer_arns = Arns,
                      !.allowed_principals = ap]

\* The principals of the updates that also change a configuration field.
PollPrincipals == {1}

\* The changes an Update is given, as <<prior state, configuration>>: with
\* the configuration fields unchanged, any change of allowed_principals and
\* of tags; with one configuration field changed, the changes of
\* allowed_principals within PollPrincipals and of tags; with several
\* configuration fields changed, no allowed_principals, no change of tags
\* and each set of load balancers empty or whole.
UpdateInputs ==
    {<<o, n>> \in {BaseAttrs(ap) : ap \in SUBSET Principals} \X AttrValues :
        \/ CfgDiff(o, n) = {}
        \/ /\ Cardinality(CfgDiff(o, n)) = 1
           /\ o.allowed_principals \cup n.allowed_principals \subseteq PollPrincipals
        \/ /\ Cardinality(CfgDiff(o, n)) > 1
           /\ o.allowed_principals \cup n.allowed_principals = {}
           /\ o.tags = n.tags
           /\ n.gateway_load_balancer_arns \in {{}, Arns}
           /\ n.network_load_balancer_arns \in {{}, Arns}}

----------------------------------------------------------------------------
(* Read *)

TerminalStates == {ServiceStateDeleted, ServiceStateDeleting, ServiceStateFailed}

\* The attributes Read sets before it describes the permissions, and after.
ReadAttrsBefore ==
    {"arn", "acceptance_required", "availability_zones", "base_endpoint_dns_names",
     "gateway_load_balancer_arns", "manages_vpc_endpoints",
     "network_load_balancer_arns", "private_dns_name", "service_name",
     "service_type", "state", "tags"}
ReadAttrsAfter == {"allowed_principals", "private_dns_name_configuration"}

\* resourceAwsVpcEndpointServiceRead returning every error of the refresh,
\* the one of the failed state included.
Read_FailedIsError(id, resp, presp) ==
    LET r == vpcEndpointServiceStateRefresh(resp)
        c1 == <<DescribeCall("read", id, resp)>>
        c2 == <<Call("DescribeVpcEndpointServicePermissions", "read",
                     [ServiceId |-> id], presp)>>
    IN IF r.err # NoErr
       THEN [id |-> id, set |-> {}, calls |-> c1,
             ret |-> Err("error reading VPC Endpoint Service (%s): %s", id, r.err, "")]
       ELSE IF r.state \in TerminalStates
       THEN [id |-> "", set |-> {}, calls |-> c1, ret |-> Ok]
       ELSE IF presp # "ok"
       THEN [id |-> id, set |-> ReadAttrsBefore, calls |-> c1 \o c2,
             ret |-> Err("error reading VPC Endpoint Service permissions (%s): %s",
                         id, "api error", "")]
       ELSE [id |-> id, set |-> ReadAttrsBefore \cup ReadAttrsAfter,
             calls |-> c1 \o c2, ret |-> Ok]

\* resourceAwsVpcEndpointServiceRead(d, meta) for the responses resp of
\* DescribeVpcEndpointServiceConfigurations and presp of
\* DescribeVpcEndpointServicePermissions: the new d.Id(), the attributes
\* set, the calls issued and the value returned.
Read(id, resp, presp) ==
    LET r == vpcEndpointServiceStateRefresh(resp)
        c1 == <<DescribeCall("read", id, resp)>>
        c2 == <<Call("DescribeVpcEndpointServicePermissions", "read",
                     [ServiceId |-> id], presp)>>
    IN IF r.err # NoErr /\ r.state # ServiceStateFailed
       THEN [id |-> id, set |-> {}, calls |-> c1,
             ret |-> Err("error reading VPC Endpoint Service (%s): %s", id, r.err, "")]
       ELSE IF r.state \in TerminalStates
       THEN [id |-> "", set |-> {}, calls |-> c1, ret |-> Ok]
       ELSE IF presp # "ok"
       THEN [id |-> id, set |-> ReadAttrsBefore, calls |-> c1 \o c2,
             ret |-> Err("error reading VPC Endpoint Service permissions (%s): %s",
                         id, "api error", "")]
       ELSE [id |-> id, set |-> ReadAttrsBefore \cup ReadAttrsAfter,
             calls |-> c1 \o c2, ret |-> Ok]

\* The handler returns v.
Return(v) ==
    /\ result' = v
    /\ pc' = "done"

\* A handler is entered: the histories of the previous one are dropped.
Enter(o) ==
    /\ pc = "idle"
    /\ op' = o

\* The tail call `return resourceAwsVpcEndpointServiceRead(d, meta)` after
\* the calls cs, with w the attributes set so far.
ReturnRead(cs, resp, presp) ==
    LET rd == Read(d.id, resp, presp)
    IN /\ d' = [d EXCEPT !.id = rd.id]
       /\ written' = written \cup rd.set
       /\ calls' = cs \o rd.calls
       /\ Return(rd.ret)

\* resourceAwsVpcEndpointServiceRead
resourceAwsVpcEndpointServiceRead ==
    /\ rtype = "vpc"
    /\ d.id # ""
    /\ Enter("read")
    /\ \E resp \in DescribeResponses, presp \in CallResponses :
           ReturnRead(calls, resp, presp)
    /\ UNCHANGED <<rtype, req, elapsed, wait, lastState, lastResp, firstAt>>

----------------------------------------------------------------------------
(* resource.StateChangeConf.WaitForState of the plugin SDK, as the two      *)
(* waits of this resource use it.  A refresh takes no time here, so no      *)
(* refresh is in flight when the timeout fires and the SDK's grace period   *)
(* for such a refresh has nothing to wait for.  The refresh function        *)
(* returns a nil result only together with an error, so the SDK's count of  *)
(* not-found results never starts.                                          *)

\* The sleep before the next refresh, after a refresh that returned a
\* Pending label: the sleep doubles from 100 ms, is raised to MinTimeout and
\* capped at 10 s.
NextWait(conf, w) ==
    LET base == IF w = 0 THEN 100 ELSE w
        twice == 2 * base
    IN IF twice < conf.MinTimeout THEN conf.MinTimeout
       ELSE IF twice > 10000 THEN 10000
       ELSE twice

\* The error WaitForState returns for the result r of a refresh, NoErr when
\* the refresh reached a Target label, "pending" when the loop goes on.
Classify(conf, r) ==
    IF r.err # NoErr THEN r.err
    ELSE IF r.state \in conf.Target THEN NoErr
    ELSE IF r.state \in conf.Pending THEN "pending"
    ELSE IF conf.Pending # {} THEN "UnexpectedStateError"
    ELSE "pending"

\* The two wait functions with an error text that leaves out d.Id().
WaitReturn_NoId(e, label) ==
    IF op = "delete"
    THEN IF e # NoErr
         THEN Return(Err("Error waiting for VPC Endpoint Service %s to delete: %s",
                         "", e, label))
         ELSE Return(Ok)
    ELSE IF e # NoErr
         THEN Return(Err("Error waiting for VPC Endpoint Service %s to become available: %s",
                         "", e, label))
         ELSE /\ pc' = IF op = "create" THEN "create_permissions"
                       ELSE "update_permissions"
              /\ UNCHANGED result

\* The two wait functions going on waiting when WaitForState has timed out.
WaitReturn_IgnoreTimeout(e, label) ==
    IF e = "TimeoutError"
    THEN UNCHANGED <<pc, result>>
    ELSE IF op = "delete"
    THEN IF e # NoErr
         THEN Return(Err("Error waiting for VPC Endpoint Service %s to delete: %s",
                         d.id, e, label))
         ELSE Return(Ok)
    ELSE IF e # NoErr
         THEN Return(Err("Error waiting for VPC Endpoint Service %s to become available: %s",
                         d.id, e, label))
         ELSE /\ pc' = IF op = "create" THEN "create_permissions"
                       ELSE "update_permissions"
              /\ UNCHANGED result

\* vpcEndpointServiceWaitUntilAvailable and waitForVpcEndpointServiceDeletion
\* return, and with them the handler or its next step: e is the error of
\* WaitForState and label the state label in its text.
WaitReturn(e, label) ==
    IF op = "delete"
    THEN IF e # NoErr
         THEN Return(Err("Error waiting for VPC Endpoint Service %s to delete: %s",
                         d.id, e, label))
         ELSE Return(Ok)
    ELSE IF e # NoErr
         THEN Return(Err("Error waiting for VPC Endpoint Service %s to become available: %s",
                         d.id, e, label))
         ELSE /\ pc' = IF op = "create" THEN "create_permissions"
                       ELSE "update_permissions"
              /\ UNCHANGED result

\* WaitForState sleeps conf.Delay before its first refresh.
WaitForState_Delay ==
    /\ pc = "wait_delay"
    /\ elapsed' = Conf.Delay
    /\ wait' = 0
    /\ pc' = "wait_loop"
    /\ UNCHANGED <<rtype, op, d, written, req, calls, result, lastState, lastResp, firstAt>>

\* One round of the refresh loop: sleep, refresh, classify the result.
WaitForState_Refresh ==
    /\ pc = "wait_loop"
    /\ elapsed + wait <= Conf.Timeout
    /\ elapsed' = elapsed + wait
    /\ firstAt' = IF firstAt = -1 THEN elapsed' ELSE firstAt
    /\ calls' = Append(calls, DescribeCall("poll", d.id, ""))
    /\ \E resp \in DescribeResponses :
          LET r == vpcEndpointServiceStateRefresh(resp)
              e == Classify(Conf, r)
          IN /\ lastState' = r.state
             /\ lastResp' = resp
             /\ IF e = "pending"
                THEN /\ wait' = NextWait(Conf, wait)
                     /\ UNCHANGED <<pc, result>>
                ELSE /\ WaitReturn(e, r.state)
                     /\ UNCHANGED wait
    /\ UNCHANGED <<rtype, op, d, written, req>>

\* The timeout fires before the next refresh is due.
WaitForState_Timeout ==
    /\ pc = "wait_loop"
    /\ elapsed + wait >= Conf.Timeout
    /\ elapsed' = Conf.Timeout
    /\ WaitReturn("TimeoutError", lastState)
    /\ UNCHANGED <<rtype, op, d, written, req, calls, wait, lastState, lastResp, firstAt>>

----------------------------------------------------------------------------
(* Create *)

\* resourceAwsVpcEndpointServiceCreate without the d.SetId before the wait.
resourceAwsVpcEndpointServiceCreate_NoSetId ==
    /\ rtype = "vpc"
    /\ d.id = ""
    /\ Enter("create")
    /\ \E in \in CreateInputs, resp \in CallResponses :
          LET rd == [d EXCEPT !.new = in]
              rq == CreateRequest(rd)
          IN /\ req' = rq
             /\ calls' = <<Call(rq.api, "create", rq, resp)>>
             /\ d' = rd
             /\ IF resp # "ok"
                THEN Return(Err("Error creating VPC Endpoint Service configuration: %s",
                                "", "api error", ""))
                ELSE /\ pc' = "wait_delay"
                     /\ UNCHANGED result
    /\ UNCHANGED <<rtype, written, elapsed, wait, lastState, lastResp, firstAt>>

\* resourceAwsVpcEndpointServiceCreate up to the wait: the Create call and
\* d.SetId.
resourceAwsVpcEndpointServiceCreate ==
    /\ rtype = "vpc"
    /\ d.id = ""
    /\ Enter("create")
    /\ \E in \in CreateInputs, resp \in CallResponses :
          LET rd == [d EXCEPT !.new = in]
              rq == CreateRequest(rd)
          IN /\ req' = rq
             /\ calls' = <<Call(rq.api, "create", rq, resp)>>
             /\ IF resp # "ok"
                THEN /\ d' = rd
                     /\ Return(Err("Error creating VPC Endpoint Service configuration: %s",
                                   "", "api error", ""))
                ELSE /\ d' = [rd EXCEPT !.id = SvcId]
                     /\ pc' = "wait_delay"
                     /\ UNCHANGED result
    /\ UNCHANGED <<rtype, written, elapsed, wait, lastState, lastResp, firstAt>>

\* resourceAwsVpcEndpointServiceCreate after the wait: the permissions call
\* and the final Read.
resourceAwsVpcEndpointServiceCreate_Permissions ==
    /\ pc = "create_permissions"
    /\ op = "create"
    /\ IF GetOkSet(d, "allowed_principals") /\ Cardinality(d.new.allowed_principals) > 0
       THEN LET rq == CreatePermissionsRequest(d)
            IN /\ req' = rq
               /\ \E resp \in CallResponses :
                     LET cs == Append(calls, Call(rq.api, "create", rq, resp))
                     IN
                     IF resp # "ok"
                     THEN /\ calls' = cs
                          /\ Return(Err("error adding VPC Endpoint Service permissions: %s",
                                        "", "api error", ""))
                          /\ UNCHANGED <<d, written>>
                     ELSE \E dresp \in DescribeResponses, presp \in CallResponses :
                              ReturnRead(cs, dresp, presp)
       ELSE /\ UNCHANGED req
            /\ \E dresp \in DescribeResponses, presp \in CallResponses :
                  ReturnRead(calls, dresp, presp)
    /\ UNCHANGED <<rtype, op, elapsed, wait, lastState, lastResp, firstAt>>

----------------------------------------------------------------------------
(* Update *)

\* resourceAwsVpcEndpointServiceUpdate up to the wait: the configuration
\* call, when a configuration field changed.
resourceAwsVpcEndpointServiceUpdate ==
    /\ rtype = "vpc"
    /\ d.id # ""
    /\ Enter("update")
    /\ \E in \in UpdateInputs :
          LET rd == [d EXCEPT !.old = in[1], !.new = in[2]]
          IN /\ d' = rd
             /\ IF HasChanges(rd, CfgKeys)
                THEN LET rq == UpdateConfigurationRequest(rd)
                     IN /\ req' = rq
                        /\ \E resp \in CallResponses :
                              /\ calls' = <<Call(rq.api, "update", rq, resp)>>
                              /\ IF resp # "ok"
                                 THEN Return(Err("Error modifying VPC Endpoint Service configuration: %s",
                                                 "", "api error", ""))
                                 ELSE /\ pc' = "wait_delay"
                                      /\ UNCHANGED result
                ELSE /\ pc' = "update_permissions"
                     /\ UNCHANGED <<req, calls, result>>
    /\ UNCHANGED <<rtype, written, elapsed, wait, lastState, lastResp, firstAt>>

\* resourceAwsVpcEndpointServiceUpdate after the wait, going on to the tags
\* and the Read when the permissions call has failed.
resourceAwsVpcEndpointServiceUpdate_Permissions_IgnoreError ==
    /\ pc = "update_permissions"
    /\ op = "update"
    /\ LET rq == UpdatePermissionsRequest(d)
           perm == HasChange(d, "allowed_principals")
           tags == HasChange(d, "tags")
       IN /\ req' = IF perm THEN rq ELSE req
          /\ \E presp \in CallResponses, tresp \in CallResponses :
                LET c1 == IF perm
                          THEN Append(calls, Call(rq.api, "update", rq, presp))
                          ELSE calls
                    c2 == IF tags
                          THEN Append(c1, Call("Ec2UpdateTags", "update",
                                               [old |-> d.old.tags, new |-> d.new.tags],
                                               tresp))
                          ELSE c1
                IN
                IF tags /\ tresp # "ok"
                THEN /\ calls' = c2
                     /\ Return(Err("error updating EC2 VPC Endpoint Service (%s) tags: %s",
                                   d.id, "api error", ""))
                     /\ UNCHANGED <<d, written>>
                ELSE \E dresp \in DescribeResponses, rresp \in CallResponses :
                         ReturnRead(c2, dresp, rresp)
    /\ UNCHANGED <<rtype, op, elapsed, wait, lastState, lastResp, firstAt>>

\* resourceAwsVpcEndpointServiceUpdate after the wait: the permissions call,
\* the tags and the final Read.
resourceAwsVpcEndpointServiceUpdate_Permissions ==
    /\ pc = "update_permissions"
    /\ op = "update"
    /\ LET rq == UpdatePermissionsRequest(d)
           perm == HasChange(d, "allowed_principals")
           tags == HasChange(d, "tags")
       IN /\ req' = IF perm THEN rq ELSE req
          /\ \E presp \in CallResponses, tresp \in CallResponses :
                LET c1 == IF perm
                          THEN Append(calls, Call(rq.api, "update", rq, presp))
                          ELSE calls
                    c2 == IF tags
                          THEN Append(c1, Call("Ec2UpdateTags", "update",
                                               [old |-> d.old.tags, new |-> d.new.tags],
                                               tresp))
                          ELSE c1
                IN
                IF perm /\ presp # "ok"
                THEN /\ calls' = c1
                     /\ Return(Err("Error modifying VPC Endpoint Service permissions: %s",
                                   "", "api error", ""))
                     /\ UNCHANGED <<d, written>>
                ELSE IF tags /\ tresp # "ok"
                THEN /\ calls' = c2
                     /\ Return(Err("error updating EC2 VPC Endpoint Service (%s) tags: %s",
                                   d.id, "api error", ""))
                     /\ UNCHANGED <<d, written>>
                ELSE \E dresp \in DescribeResponses, rresp \in CallResponses :
                         ReturnRead(c2, dresp, rresp)
    /\ UNCHANGED <<rtype, op, elapsed, wait, lastState, lastResp, firstAt>>

----------------------------------------------------------------------------
(* Delete *)

\* resourceAwsVpcEndpointServiceDelete without the isAWSErr test: every error
\* of the Delete call is returned.
resourceAwsVpcEndpointServiceDelete_NoNotFound ==
    /\ rtype = "vpc"
    /\ d.id # ""
    /\ Enter("delete")
    /\ LET rq == [api |-> "DeleteVpcEndpointServiceConfigurations",
                  ServiceIds |-> <<d.id>>]
       IN /\ req' = rq
          /\ \E resp \in DeleteResponses :
                /\ calls' = <<Call(rq.api, "delete", rq, resp)>>
                /\ IF resp # "ok"
                   THEN Return(Err("Error deleting VPC Endpoint Service: %s",
                                   "", "api error", ""))
                   ELSE /\ pc' = "wait_delay"
                        /\ UNCHANGED result
    /\ UNCHANGED <<rtype, d, written, elapsed, wait, lastState, lastResp, firstAt>>

\* resourceAwsVpcEndpointServiceDelete up to the wait: the Delete call.
resourceAwsVpcEndpointServiceDelete ==
    /\ rtype = "vpc"
    /\ d.id # ""
    /\ Enter("delete")
    /\ LET rq == [api |-> "DeleteVpcEndpointServiceConfigurations",
                  ServiceIds |-> <<d.id>>]
       IN /\ req' = rq
          /\ \E resp \in DeleteResponses :
                /\ calls' = <<Call(rq.api, "delete", rq, resp)>>
                /\ IF resp = "ApiError"
                   THEN Return(Err("Error deleting VPC Endpoint Service: %s",
                                   "", "api error", ""))
                   ELSE /\ pc' = "wait_delay"
                        /\ UNCHANGED result
    /\ UNCHANGED <<rtype, d, written, elapsed, wait, lastState, lastResp, firstAt>>

----------------------------------------------------------------------------
(* S3 object copy: Read *)

S3ReadAttrs ==
    {"cache_control", "content_disposition", "content_encoding",
     "content_language", "content_type", "metadata", "version_id",
     "server_side_encryption", "website_redirect",
     "object_lock_legal_hold_status", "object_lock_mode",
     "object_lock_retain_until_date", "kms_key_id", "etag", "storage_class"}

\* resourceAwsS3ObjectCopyRead.  The helper that sets the KMS attributes
\* (resourceAwsS3BucketObjectSetKMS) is taken to succeed.
resourceAwsS3ObjectCopyRead ==
    /\ rtype = "s3"
    /\ d.id # ""
    /\ Enter("read")
    /\ \E resp \in HeadObjectResponses, tresp \in CallResponses :
          LET head == Call("HeadObject", "read", [Bucket |-> "bucket", Key |-> "key"],
                           resp)
              list == Call("S3ObjectListTags", "read", [Bucket |-> "bucket", Key |-> "key"],
                           tresp)
          IN IF resp = "404"
             THEN /\ d' = [d EXCEPT !.id = ""]
                  /\ calls' = <<head>>
                  /\ Return(Ok)
                  /\ UNCHANGED written
             ELSE IF resp # "ok"
             THEN /\ calls' = <<head>>
                  /\ Return(Err("%s", "", "api error", ""))
                  /\ UNCHANGED <<d, written>>
             ELSE IF tresp # "ok"
             THEN /\ calls' = <<head, list>>
                  /\ written' = S3ReadAttrs
                  /\ Return(Err("error listing tags for S3 Bucket (%s) Object (%s): %w",
                                "", "api error", ""))
                  /\ UNCHANGED d
             ELSE /\ calls' = <<head, list>>
                  /\ written' = S3ReadAttrs \cup {"tags"}
                  /\ Return(Ok)
                  /\ UNCHANGED d
    /\ UNCHANGED <<rtype, req, elapsed, wait, lastState, lastResp, firstAt>>

----------------------------------------------------------------------------
(* S3 object copy: Update *)

\* The keys whose presence makes Update copy, and the keys whose change does.
CopyIfKeys ==
    {"copy_if_match", "copy_if_modified_since", "copy_if_none_match",
     "copy_if_unmodified_since"}

CopyArgs ==
    {"acl", "bucket", "cache_control", "content_disposition", "content_encoding",
     "content_language", "content_type", "customer_algorithm", "customer_key",
     "customer_key_md5", "expected_bucket_owner", "expected_source_bucket_owner",
     "expires", "grant", "key", "kms_encryption_context", "kms_key_id", "metadata",
     "metadata_directive", "object_lock_legal_hold_status", "object_lock_mode",
     "object_lock_retain_until_date", "request_payer", "server_side_encryption",
     "source", "source_customer_algorithm", "source_customer_key",
     "source_customer_key_md5", "storage_class", "tagging_directive", "tags",
     "website_redirect"}

\* The keys of the schema a configuration can set.
S3Keys == CopyArgs \cup CopyIfKeys \cup {"force_destroy"}

\* The subsets of S of at most n members.
RECURSIVE SubsetsUpTo(_, _)
SubsetsUpTo(S, n) ==
    IF n = 0 THEN {{}}
    ELSE LET P == SubsetsUpTo(S, n - 1)
         IN P \cup {p \cup {k} : p \in P, k \in S}

\* The ResourceData an Update of an object copy is given, by the copy_if
\* keys that are set (d.GetOk) and the keys that changed (d.HasChange): any
\* copy_if keys with nothing changed, and at most one copy_if key with at
\* most MaxChanged keys changed.
S3UpdateInputs ==
    {[copy_if |-> s, changed |-> {}] : s \in SUBSET CopyIfKeys}
    \cup {[copy_if |-> s, changed |-> c] :
            s \in SubsetsUpTo(CopyIfKeys, 1), c \in SubsetsUpTo(S3Keys, MaxChanged)}

S3GetOk(rd, key) == key \in rd.copy_if
S3HasChanges(rd, keys) == rd.changed \cap keys # {}

\* Outcomes of s3.CopyObject: an output with or without a CopyObjectResult,
\* or an error.
CopyObjectResponses == {"ok", "ok without result", "ApiError"}

\* The attributes DoCopy sets from the output of CopyObject.
S3CopyAttrs(resp) ==
    {"customer_algorithm", "customer_key_md5", "expiration",
     "kms_encryption_context", "kms_key_id", "request_charged",
     "server_side_encryption", "source_version_id", "version_id"}
    \cup (IF resp = "ok" THEN {"etag", "last_modified"} ELSE {})

\* resourceAwsS3BucketObjectRead, the Read of the bucket object resource,
\* for the responses of HeadObject and of the listing of the tags.
resourceAwsS3BucketObjectRead(id, resp, tresp) ==
    LET head == Call("HeadObject", "read", [Bucket |-> "bucket", Key |-> "key"], resp)
        list == Call("S3ObjectListTags", "read", [Bucket |-> "bucket", Key |-> "key"],
                     tresp)
    IN IF resp = "404"
       THEN [id |-> "", set |-> {}, calls |-> <<head>>, ret |-> Ok]
       ELSE IF resp # "ok"
       THEN [id |-> id, set |-> {}, calls |-> <<head>>,
             ret |-> Err("%s", "", "api error", "")]
       ELSE IF tresp # "ok"
       THEN [id |-> id, set |-> S3ReadAttrs, calls |-> <<head, list>>,
             ret |-> Err("error listing tags for S3 Bucket (%s) Object (%s): %w",
                         "", "api error", "")]
       ELSE [id |-> id, set |-> S3ReadAttrs \cup {"tags"}, calls |-> <<head, list>>,
             ret |-> Ok]

\* resourceAwsS3ObjectCopyDoCopy(d, meta) called by `by` with the local ID id,
\* for the response resp of CopyObject and the responses of the Read it
\* ends with: the new d.Id(), the attributes set, the calls issued and the
\* value returned.
resourceAwsS3ObjectCopyDoCopy(by, id, resp, hresp, tresp) ==
    LET copy == Call("CopyObject", by,
                     [Bucket |-> "bucket", Key |-> "key", CopySource |-> "source"],
                     resp)
        rd == resourceAwsS3BucketObjectRead(S3Id, hresp, tresp)
    IN IF resp = "ApiError"
       THEN [id |-> id, set |-> {}, calls |-> <<copy>>,
             ret |-> Err("Error copying S3 object (bucket: %s; key: %s; source: %s): %s",
                         "", "api error", "")]
       ELSE [id |-> rd.id, set |-> S3CopyAttrs(resp) \cup rd.set,
             calls |-> <<copy>> \o rd.calls, ret |-> rd.ret]

\* resourceAwsS3ObjectCopyUpdate without the loop over the copy_if keys.
resourceAwsS3ObjectCopyUpdate_NoCopyIf ==
    /\ rtype = "s3"
    /\ d.id # ""
    /\ Enter("update")
    /\ \E in \in S3UpdateInputs :
          LET rd == [id |-> d.id, old |-> d.old, new |-> d.new,
                     copy_if |-> in.copy_if, changed |-> in.changed]
          IN IF S3HasChanges(rd, CopyArgs)
             THEN \E resp \in CopyObjectResponses, hresp \in HeadObjectResponses,
                     tresp \in CallResponses :
                     LET r == resourceAwsS3ObjectCopyDoCopy("update", rd.id, resp,
                                                            hresp, tresp)
                     IN /\ d' = [rd EXCEPT !.id = r.id]
                        /\ written' = written \cup r.set
                        /\ calls' = r.calls
                        /\ Return(r.ret)
             ELSE /\ d' = rd
                  /\ Return(Ok)
                  /\ UNCHANGED <<written, calls>>
    /\ UNCHANGED <<rtype, req, elapsed, wait, lastState, lastResp, firstAt>>

\* resourceAwsS3ObjectCopyUpdate
resourceAwsS3ObjectCopyUpdate ==
    /\ rtype = "s3"
    /\ d.id # ""
    /\ Enter("update")
    /\ \E in \in S3UpdateInputs :
          LET rd == [id |-> d.id, old |-> d.old, new |-> d.new,
                     copy_if |-> in.copy_if, changed |-> in.changed]
          IN IF \/ \E key \in CopyIfKeys : S3GetOk(rd, key)
                \/ S3HasChanges(rd, CopyArgs)
             THEN \E resp \in CopyObjectResponses, hresp \in HeadObjectResponses,
                     tresp \in CallResponses :
                     LET r == resourceAwsS3ObjectCopyDoCopy("update", rd.id, resp,
                                                            hresp, tresp)
                     IN /\ d' = [rd EXCEPT !.id = r.id]
                        /\ written' = written \cup r.set
                        /\ calls' = r.calls
                        /\ Return(r.ret)
             ELSE /\ d' = rd
                  /\ Return(Ok)
                  /\ UNCHANGED <<written, calls>>
    /\ UNCHANGED <<rtype, req, elapsed, wait, lastState, lastResp, firstAt>>

----------------------------------------------------------------------------
(* The plugin framework *)

\* The handler has returned; the framework may invoke the next one.  After
\* a Delete that returned nil the framework drops the resource's state.
Done ==
    /\ pc = "done"
    /\ pc' = "idle"
    /\ op' = "none"
    /\ d' = [id |-> IF op = "delete" /\ result = Ok THEN "" ELSE d.id,
             old |-> ZeroAttrs, new |-> ZeroAttrs]
    /\ written' = {}
    /\ req' = NoReq
    /\ calls' = <<>>
    /\ result' = NotReturned
    /\ elapsed' = 0
    /\ wait' = 0
    /\ lastState' = ""
    /\ lastResp' = ""
    /\ firstAt' = -1
    /\ UNCHANGED rtype

Init ==
    /\ rtype \in {"vpc", "s3"}
    /\ op = "none"
    /\ pc = "idle"
    /\ d \in {[id |-> i, old |-> ZeroAttrs, new |-> ZeroAttrs] :
                 i \in IF rtype = "vpc" THEN {"", SvcId} ELSE {S3Id}}
    /\ written = {}
    /\ req = NoReq
    /\ calls = <<>>
    /\ result = NotReturned
    /\ elapsed = 0
    /\ wait = 0
    /\ lastState = ""
    /\ lastResp = ""
    /\ firstAt = -1

Next ==
    \/ resourceAwsVpcEndpointServiceCreate
    \/ resourceAwsVpcEndpointServiceCreate_Permissions
    \/ resourceAwsVpcEndpointServiceRead
    \/ resourceAwsVpcEndpointServiceUpdate
    \/ resourceAwsVpcEndpointServiceUpdate_Permissions
    \/ resourceAwsVpcEndpointServiceDelete
    \/ WaitForState_Delay
    \/ WaitForState_Refresh
    \/ WaitForState_Timeout
    \/ resourceAwsS3ObjectCopyRead
    \/ resourceAwsS3ObjectCopyUpdate
    \/ Done

Spec == Init /\ [][Next]_vars

----------------------------------------------------------------------------
(* setVpcEndpointServiceUpdateLists on its own: every old and new value of  *)
(* each set-valued field                                                    *)

SetKeys ==
    {"gateway_load_balancer_arns", "network_load_balancer_arns", "allowed_principals"}

InitLists ==
    /\ rtype = "vpc"
    /\ op = "lists"
    /\ pc = "lists"
    /\ \E k \in SetKeys, o \in AttrValues, n \in AttrValues :
          /\ \A j \in DOMAIN ZeroAttrs \ {k} : o[j] = ZeroAttrs[j] /\ n[j] = ZeroAttrs[j]
          /\ d = [id |-> SvcId, old |-> o, new |-> n]
          /\ req = [api |-> "lists", key |-> k, a |-> NilList, r |-> NilList]
    /\ written = {}
    /\ calls = <<>>
    /\ result = NotReturned
    /\ elapsed = 0
    /\ wait = 0
    /\ lastState = ""
    /\ lastResp = ""
    /\ firstAt = -1

\* setVpcEndpointServiceUpdateLists(d, key, &a, &r) with a and r nil.
Lists_Apply ==
    /\ pc = "lists"
    /\ LET out == setVpcEndpointServiceUpdateLists(d, req.key, req.a, req.r)
       IN req' = [req EXCEPT !.a = out.a, !.r = out.r]
    /\ pc' = "lists_done"
    /\ UNCHANGED <<rtype, op, d, written, calls, result, elapsed, wait, lastState, lastResp, firstAt>>

NextLists == Lists_Apply

SpecLists == InitLists /\ [][NextLists]_vars

----------------------------------------------------------------------------
(* C1: for every old set O and new set D of a set-valued field, the add     *)
(* list of setVpcEndpointServiceUpdateLists holds exactly the members of    *)
(* D \ O and the remove list exactly those of O \ D, each once; so the two  *)
(* lists are disjoint and (O \cup add) \ remove = D.                        *)

NoDuplicates(s) == Cardinality(Range(s)) = Len(s)

C1_DiffLists ==
    pc = "lists_done" =>
        LET O == d.old[req.key]
            D == d.new[req.key]
            add == Range(req.a.items)
            remove == Range(req.r.items)
        IN /\ add = D \ O
           /\ remove = O \ D
           /\ NoDuplicates(req.a.items)
           /\ NoDuplicates(req.r.items)
           /\ add \cap remove = {}
           /\ (O \cup add) \ remove = D

\* The lists of a change that both adds and removes members while keeping one.
C1_Witness ==
    /\ pc = "lists_done"
    /\ req.key = "allowed_principals"
    /\ d.old.allowed_principals = {1, 2}
    /\ d.new.allowed_principals = {2, 3}
    /\ req.a = List(<<3>>)
    /\ req.r = List(<<1>>)

----------------------------------------------------------------------------
(* Reading the call log *)

PermissionsApi == "ModifyVpcEndpointServicePermissions"
DescribeApi == "DescribeVpcEndpointServiceConfigurations"

\* The positions of the log at which api was called by the code `by`.
CallsOf(api, by) == {i \in 1..Len(calls) : calls[i].api = api /\ calls[i].by = by}

\* The format string of the error the handler returned, "" when none.
ErrMsg == IF result.kind = "error" THEN result.msg ELSE ""

\* The error WaitForState returned, as the handler's error wraps it; "" when
\* the handler returned no error of a wait.
WaitErrors ==
    {"Error waiting for VPC Endpoint Service %s to become available: %s",
     "Error waiting for VPC Endpoint Service %s to delete: %s"}
WaitError == IF ErrMsg \in WaitErrors THEN result.cause ELSE ""

----------------------------------------------------------------------------
(* C2: an Update in which allowed_principals changes from O to D issues     *)
(* exactly one ModifyVpcEndpointServicePermissions call, with add list      *)
(* D \ O and remove list O \ D: never a second one, never other lists, and  *)
(* the one call is there as soon as the Update is past its configuration    *)
(* step (which returns early only when the configuration call or its wait   *)
(* fails).                                                                  *)

UpdateEarlyErrors ==
    {"Error modifying VPC Endpoint Service configuration: %s",
     "Error waiting for VPC Endpoint Service %s to become available: %s"}

C2_UpdatePermissionsCall ==
    (op = "update" /\ HasChange(d, "allowed_principals")) =>
        LET O == d.old.allowed_principals
            D == d.new.allowed_principals
            ps == CallsOf(PermissionsApi, "update")
        IN /\ Cardinality(ps) <= 1
           /\ \A i \in ps :
                 /\ Range(calls[i].arg.AddAllowedPrincipals.items) = D \ O
                 /\ Range(calls[i].arg.RemoveAllowedPrincipals.items) = O \ D
                 /\ NoDuplicates(calls[i].arg.AddAllowedPrincipals.items)
                 /\ NoDuplicates(calls[i].arg.RemoveAllowedPrincipals.items)
           /\ (pc = "done" /\ ErrMsg \notin UpdateEarlyErrors) => Cardinality(ps) = 1

\* {P1,P2} -> {P2,P3}: one call, add = [P3], remove = [P1].
C2_Witness ==
    /\ op = "update"
    /\ pc = "done"
    /\ result = Ok
    /\ d.old.allowed_principals = {1, 2}
    /\ d.new.allowed_principals = {2, 3}
    /\ \E i \in 1..Len(calls) :
          /\ CallsOf(PermissionsApi, "update") = {i}
          /\ calls[i].arg.AddAllowedPrincipals = List(<<3>>)
          /\ calls[i].arg.RemoveAllowedPrincipals = List(<<1>>)

----------------------------------------------------------------------------
(* C3: the calls of a Create occur in the order Create, the refreshes of    *)
(* the wait for `available`, then (only when the desired allowed_principals *)
(* is non-empty) one ModifyVpcEndpointServicePermissions call whose add     *)
(* list is the whole desired set and whose remove list is absent, then the  *)
(* calls of the final Read; with allowed_principals empty or unset no       *)
(* permissions call is issued.                                              *)

\* The place of a call in the sequence of Create.
CreateRank(c) ==
    IF c.api = "CreateVpcEndpointServiceConfiguration" THEN 1
    ELSE IF c.api = DescribeApi /\ c.by = "poll" THEN 2
    ELSE IF c.api = PermissionsApi THEN 3
    ELSE IF c.api = DescribeApi /\ c.by = "read" THEN 4
    ELSE IF c.api = "DescribeVpcEndpointServicePermissions" THEN 5
    ELSE 0

C3_CreateOrder ==
    op = "create" =>
        LET D == d.new.allowed_principals
            n == Len(calls)
        IN /\ n >= 1 => CreateRank(calls[1]) = 1
           /\ \A i \in 1..n : CreateRank(calls[i]) # 0
           /\ \A i \in 2..n :
                 LET a == CreateRank(calls[i - 1])
                     b == CreateRank(calls[i])
                 IN \* the wait follows the Create call and goes on with refreshes
                    /\ b = 2 => a \in {1, 2}
                    \* the permissions call follows the refresh that saw `available`
                    /\ b = 3 =>
                          /\ a = 2
                          /\ lastState = ServiceStateAvailable
                          /\ D # {}
                          /\ calls[i].arg.AddAllowedPrincipals.set
                          /\ Range(calls[i].arg.AddAllowedPrincipals.items) = D
                          /\ NoDuplicates(calls[i].arg.AddAllowedPrincipals.items)
                          /\ ~calls[i].arg.RemoveAllowedPrincipals.set
                    \* the Read follows the permissions call, or the wait when
                    \* there is nothing to permit
                    /\ b = 4 =>
                          /\ lastState = ServiceStateAvailable
                          /\ a = IF D # {} THEN 3 ELSE 2
                    /\ b = 5 => a = 4
                    /\ b # 1
           /\ Cardinality(CallsOf(PermissionsApi, "create")) <= 1
           /\ D = {} => CallsOf(PermissionsApi, "create") = {}
           /\ (pc = "done" /\ result = Ok) => CallsOf(DescribeApi, "read") # {}

\* Create of {P1,P2}: Create, refreshes, one permissions call adding both,
\* the Read.
C3_Witness ==
    /\ op = "create"
    /\ pc = "done"
    /\ result = Ok
    /\ d.new.allowed_principals = {1, 2}
    /\ Len(calls) = 6
    /\ CreateRank(calls[1]) = 1
    /\ CreateRank(calls[2]) = 2
    /\ CreateRank(calls[3]) = 2
    /\ calls[4].arg.AddAllowedPrincipals = List(<<1, 2>>)
    /\ calls[4].arg.RemoveAllowedPrincipals = NilList
    /\ CreateRank(calls[5]) = 4
    /\ CreateRank(calls[6]) = 5

\* Create without allowed_principals: no permissions call on the way to the
\* Read.
C3_WitnessEmpty ==
    /\ op = "create"
    /\ pc = "done"
    /\ result = Ok
    /\ d.new.allowed_principals = {}
    /\ CallsOf(PermissionsApi, "create") = {}
    /\ CallsOf(DescribeApi, "read") # {}

----------------------------------------------------------------------------
(* The labels of the two waits, as the source lists them *)

\* Pending \cup Target of the wait the handler o runs.
ExpectedLabels(o) ==
    IF o = "delete"
    THEN {ServiceStateAvailable, ServiceStateDeleting, ServiceStateDeleted}
    ELSE {ServiceStatePending, ServiceStateAvailable}

\* Target of the wait the handler o runs.
TargetLabels(o) ==
    IF o = "delete" THEN {ServiceStateDeleted} ELSE {ServiceStateAvailable}

FailedStateError == "VPC Endpoint Service is in a failed state"

Polling == pc \in {"wait_delay", "wait_loop"}

Refreshes == CallsOf(DescribeApi, "poll")

----------------------------------------------------------------------------
(* C4: the first refresh of a wait that returns a label outside Pending     *)
(* \cup Target, `failed` in particular, ends the wait at once: the handler  *)
(* returns an error of the failure state (the failed-state error of the     *)
(* refresh, or an unexpected-state error), not a timeout error, whatever    *)
(* time has elapsed, and no call follows that refresh.                      *)

C4_FailureStateEndsPoll ==
    op \in {"create", "update", "delete"} =>
        \* the loop goes on only after labels of Pending
        /\ (pc = "wait_loop" /\ Refreshes # {}) =>
               lastState \in ExpectedLabels(op) \ TargetLabels(op)
        \* a label outside Pending \cup Target has ended it
        /\ lastState \in ServiceStates \ ExpectedLabels(op) =>
               /\ pc = "done"
               /\ WaitError \in {"UnexpectedStateError", FailedStateError}
               /\ WaitError # "TimeoutError"
               /\ lastState = ServiceStateFailed => WaitError = FailedStateError
               /\ result.label = lastState
               /\ Refreshes # {}
               /\ Len(calls) \in Refreshes

\* pending, pending, failed while waiting for `available`: the failed-state
\* error after three refreshes and 20 s of the 600 s.
C4_Witness ==
    /\ op = "create"
    /\ pc = "done"
    /\ lastState = ServiceStateFailed
    /\ Cardinality(Refreshes) = 3
    /\ elapsed = 20000
    /\ elapsed < Timeout
    /\ WaitError = FailedStateError

----------------------------------------------------------------------------
(* C5: when the refreshes of the wait for `available` return `pending`      *)
(* until the timeout has passed, the wait fails with a timeout error, which *)
(* is not the failure-state error and carries `pending` as the last state;  *)
(* and the wait returns a timeout error in no other case.                   *)

TimeoutErrorOfAvailable(id) ==
    Err("Error waiting for VPC Endpoint Service %s to become available: %s",
        id, "TimeoutError", ServiceStatePending)

C5_TimeoutError ==
    [][(pc = "wait_loop" /\ op \in {"create", "update"}) =>
          /\ elapsed + wait > 600000 =>
                /\ lastState = ServiceStatePending
                /\ pc' = "done"
                /\ result' = TimeoutErrorOfAvailable(d.id)
                /\ calls' = calls
          /\ (result'.kind = "error" /\ result'.cause = "TimeoutError") =>
                /\ elapsed + wait >= 600000
                /\ lastState = ServiceStatePending
                /\ result' = TimeoutErrorOfAvailable(d.id)
                /\ result'.cause \notin {"UnexpectedStateError", FailedStateError}
      ]_vars

\* The timeout error after the refreshes of 600 s, all of them `pending`.
C5_Witness ==
    /\ op = "create"
    /\ pc = "done"
    /\ result = TimeoutErrorOfAvailable(SvcId)
    /\ lastState = ServiceStatePending
    /\ Cardinality(Refreshes) = 61
    /\ elapsed = 600000

----------------------------------------------------------------------------
(* C6 as the spec states it: the poller refreshes as soon as it starts, no  *)
(* wait before the first refresh, and a first refresh that returns a label  *)
(* of Target makes it return success at once.                               *)

FirstRefreshReachedTarget ==
    /\ op \in {"create", "update", "delete"}
    /\ Cardinality(Refreshes) = 1
    /\ lastState \in TargetLabels(op)

ReturnedAtOnce ==
    /\ ~Polling
    /\ WaitError = ""
    /\ elapsed = firstAt

----------------------------------------------------------------------------
(* C7: Delete takes "not found" for success at both points.  A not-found    *)
(* error of the Delete call does not fail the operation, which goes on to   *)
(* the wait; a refresh of the wait that finds nothing counts as the         *)
(* `deleted` target, so Delete returns nil; any other error of the Delete   *)
(* call is returned, with no wait.                                          *)

DeleteCallError == "Error deleting VPC Endpoint Service: %s"

C7_DeleteNotFound ==
    op = "delete" =>
        /\ Len(calls) >= 1
        /\ calls[1].api = "DeleteVpcEndpointServiceConfigurations"
        /\ (calls[1].resp = "ApiError") <=> (ErrMsg = DeleteCallError)
        /\ calls[1].resp = "ApiError" => (pc = "done" /\ Len(calls) = 1)
        /\ calls[1].resp \in {"ok", "NotFound"} => (Polling \/ pc = "done")
        /\ lastResp = "NotFound" =>
              /\ lastState = ServiceStateDeleted
              /\ pc = "done"
              /\ result = Ok
        /\ lastState = ServiceStateDeleted => (pc = "done" /\ result = Ok)

\* Delete of a service that is already gone: the Delete call and the first
\* refresh both report not found, Delete returns nil.
C7_Witness ==
    /\ op = "delete"
    /\ pc = "done"
    /\ calls[1].resp = "NotFound"
    /\ lastResp = "NotFound"
    /\ Cardinality(Refreshes) = 1
    /\ result = Ok

----------------------------------------------------------------------------
(* C8: Delete returns nil only after a refresh has observed `deleted` (or   *)
(* not found): as long as no refresh has run, or the last one reported      *)
(* `available` or `deleting`, Delete has not returned nil.                  *)

C8_DeleteConfirmed ==
    op = "delete" =>
        /\ result = Ok =>
              /\ pc = "done"
              /\ Refreshes # {}
              /\ Len(calls) \in Refreshes
              /\ lastState = ServiceStateDeleted
              /\ lastResp \in {ServiceStateDeleted, "NotFound"}
        /\ (Refreshes = {} \/ lastState \in {ServiceStateAvailable, ServiceStateDeleting}) =>
              result # Ok

\* The Delete call succeeded and the service lingers in `deleting` after
\* three refreshes: Delete is still waiting.
C8_Witness ==
    /\ op = "delete"
    /\ calls[1].resp = "ok"
    /\ Cardinality(Refreshes) = 3
    /\ lastState = ServiceStateDeleting
    /\ pc = "wait_loop"
    /\ result = NotReturned

----------------------------------------------------------------------------
(* C9: Create stores the id of the created service before the first         *)
(* refresh of the wait; when the wait fails (failure state or timeout)      *)
(* Create returns that error with the id still set and has issued no        *)
(* Delete call or any other call after the last refresh; when the Create    *)
(* call fails no id is set.                                                 *)

CreateCallError == "Error creating VPC Endpoint Service configuration: %s"

C9_CreatePersistsId ==
    op = "create" =>
        /\ Polling => d.id = SvcId
        /\ \A i \in Refreshes : calls[i].arg.ServiceIds = <<SvcId>>
        /\ WaitError # "" =>
              /\ pc = "done"
              /\ d.id = SvcId
              /\ result.id = SvcId
              /\ \A i \in 1..Len(calls) :
                    calls[i].api \in {"CreateVpcEndpointServiceConfiguration", DescribeApi}
              /\ Len(calls) \in Refreshes \/ WaitError = "TimeoutError"
        /\ calls[1].resp # "ok" =>
              /\ ErrMsg = CreateCallError
              /\ d.id = ""
              /\ Len(calls) = 1
        /\ ErrMsg = CreateCallError => calls[1].resp # "ok"

\* The wait of a Create found the service `failed`: the error is returned
\* and the id stays.
C9_Witness ==
    /\ op = "create"
    /\ pc = "done"
    /\ WaitError = FailedStateError
    /\ d.id = SvcId
    /\ CallsOf("DeleteVpcEndpointServiceConfigurations", "create") = {}

----------------------------------------------------------------------------
(* C10: a Read whose lookup reports not found                               *)
(* (InvalidVpcEndpointServiceId.NotFound for the endpoint service, HTTP 404 *)
(* for the S3 object) clears the id and returns nil without setting an      *)
(* attribute; any other error of the lookup is returned and leaves the id   *)
(* as it was.                                                               *)

C10_ReadNotFound ==
    (op = "read" /\ pc = "done") =>
        LET lookup == calls[1]
            before == IF rtype = "vpc" THEN SvcId ELSE S3Id
        IN /\ lookup.api = IF rtype = "vpc" THEN DescribeApi ELSE "HeadObject"
           /\ lookup.resp \in {"NotFound", "404"} =>
                 /\ d.id = ""
                 /\ result = Ok
                 /\ written = {}
                 /\ Len(calls) = 1
           /\ lookup.resp = "ApiError" =>
                 /\ result.kind = "error"
                 /\ d.id = before
                 /\ Len(calls) = 1

\* A Read of an endpoint service that is gone.
C10_Witness ==
    /\ op = "read"
    /\ pc = "done"
    /\ rtype = "vpc"
    /\ calls[1].resp = "NotFound"
    /\ d.id = ""
    /\ result = Ok

\* A Read of an S3 object that is gone.
C10_WitnessS3 ==
    /\ op = "read"
    /\ pc = "done"
    /\ rtype = "s3"
    /\ calls[1].resp = "404"
    /\ d.id = ""
    /\ result = Ok

----------------------------------------------------------------------------
(* C11: the errors the handlers of the VPC endpoint service return, by what *)
(* their text carries.                                                      *)

\* The format strings that take d.Id().
IdErrors ==
    WaitErrors \cup
    {"error reading VPC Endpoint Service (%s): %s",
     "error reading VPC Endpoint Service permissions (%s): %s",
     "error updating EC2 VPC Endpoint Service (%s) tags: %s"}

\* The errors of WaitForState whose text names a state label.
LabelCauses == {"TimeoutError", "UnexpectedStateError", FailedStateError}

----------------------------------------------------------------------------
(* C12: the error a wait returns tells its three failures apart: it is the  *)
(* describe call's error exactly when the last describe call failed, the    *)
(* failed-state error exactly when the last refresh reported `failed`, and  *)
(* the timeout error exactly when the last refresh still reported a Pending *)
(* label; the three errors are pairwise different.                          *)

C12_FailuresDistinguishable ==
    /\ Cardinality({"api error", FailedStateError, "TimeoutError"}) = 3
    /\ (rtype = "vpc" /\ WaitError # "") =>
          /\ (WaitError = "api error") <=> (lastResp = "ApiError")
          /\ (WaitError = FailedStateError) <=> (lastResp = ServiceStateFailed)
          /\ (WaitError = "TimeoutError") <=> (lastResp \in Conf.Pending)

C12_Witness ==
    /\ rtype = "vpc"
    /\ op = "create"
    /\ pc = "done"
    /\ WaitError = FailedStateError
    /\ lastResp = ServiceStateFailed
    /\ lastState = ServiceStateFailed
    /\ Cardinality(Refreshes) > 1

----------------------------------------------------------------------------
(* C13: an Update in which a configuration field changed issues exactly one *)
(* ModifyVpcEndpointServiceConfiguration call, its first call, which sets   *)
(* the service ID and of the other fields only the changed ones, and every  *)
(* permissions, tags or Read call comes after the refreshes of a wait that  *)
(* ended on `available`; an Update in which none changed issues no          *)
(* configuration call and no refresh, and when allowed_principals changed   *)
(* its permissions call is the first call.                                  *)

ConfigurationApi == "ModifyVpcEndpointServiceConfiguration"

\* A scalar field of a request: set to v exactly when changed.
OnlyIfChanged(field, changed, v) ==
    /\ field.set <=> changed
    /\ field.set => field.value = v

\* A list field of a request: set exactly when S is not empty, and then S.
OnlyIfNonEmpty(field, S) ==
    /\ field.set <=> (S # {})
    /\ Range(field.items) = S
    /\ Len(field.items) = Cardinality(S)

\* The calls an Update issues after its configuration step.
AfterConfiguration ==
    {i \in 1..Len(calls) :
        \/ calls[i].api \in {PermissionsApi, "Ec2UpdateTags"}
        \/ calls[i].by = "read"}

C13_UpdateConfiguration ==
    (rtype = "vpc" /\ op = "update") =>
        LET o == d.old
            n == d.new
            cs == CallsOf(ConfigurationApi, "update")
        IN /\ CfgDiff(o, n) # {} =>
                /\ cs = {1}
                /\ LET a == calls[1].arg
                   IN /\ a.ServiceId = SvcId
                      /\ OnlyIfChanged(a.PrivateDnsName,
                                       o.private_dns_name # n.private_dns_name,
                                       n.private_dns_name)
                      /\ OnlyIfChanged(a.AcceptanceRequired,
                                       o.acceptance_required # n.acceptance_required,
                                       n.acceptance_required)
                      /\ OnlyIfNonEmpty(a.AddGatewayLoadBalancerArns,
                            n.gateway_load_balancer_arns \ o.gateway_load_balancer_arns)
                      /\ OnlyIfNonEmpty(a.RemoveGatewayLoadBalancerArns,
                            o.gateway_load_balancer_arns \ n.gateway_load_balancer_arns)
                      /\ OnlyIfNonEmpty(a.AddNetworkLoadBalancerArns,
                            n.network_load_balancer_arns \ o.network_load_balancer_arns)
                      /\ OnlyIfNonEmpty(a.RemoveNetworkLoadBalancerArns,
                            o.network_load_balancer_arns \ n.network_load_balancer_arns)
                /\ (pc = "update_permissions" \/ AfterConfiguration # {}) =>
                      /\ calls[1].resp = "ok"
                      /\ Refreshes # {}
                      /\ lastState = ServiceStateAvailable
                      /\ \A i \in AfterConfiguration : \A j \in Refreshes : j < i
           /\ CfgDiff(o, n) = {} =>
                /\ cs = {}
                /\ Refreshes = {}
                /\ ~Polling
                /\ (pc = "done" /\ o.allowed_principals # n.allowed_principals) =>
                      CallsOf(PermissionsApi, "update") = {1}

C13_Witness ==
    /\ rtype = "vpc"
    /\ op = "update"
    /\ pc = "done"
    /\ result = Ok
    /\ Cardinality(CfgDiff(d.old, d.new)) > 1
    /\ Cardinality(Refreshes) > 1
    /\ AfterConfiguration # {}

----------------------------------------------------------------------------
(* C14: a list of a modify request is present only when it is not empty.    *)
(* In an Update, a set-valued field with equal old and new values has both  *)
(* its lists absent, and for allowed_principals no permissions call at all; *)
(* a set that only gained members has its add list and no remove list, one  *)
(* that only lost members its remove list and no add list.                  *)

\* The add and remove list of each set-valued field, and the API that takes
\* them.
ListFields ==
    [gateway_load_balancer_arns |->
        [api |-> ConfigurationApi, add |-> "AddGatewayLoadBalancerArns",
         remove |-> "RemoveGatewayLoadBalancerArns"],
     network_load_balancer_arns |->
        [api |-> ConfigurationApi, add |-> "AddNetworkLoadBalancerArns",
         remove |-> "RemoveNetworkLoadBalancerArns"],
     allowed_principals |->
        [api |-> PermissionsApi, add |-> "AddAllowedPrincipals",
         remove |-> "RemoveAllowedPrincipals"]]

Present(l) == l.set

C14_ListsOnlyWhenNonEmpty ==
    rtype = "vpc" =>
        \A k \in SetKeys :
            LET f == ListFields[k]
            IN \A i \in 1..Len(calls) :
                  (calls[i].api = f.api /\ calls[i].by = "update") =>
                     LET O == d.old[k]
                         D == d.new[k]
                         add == calls[i].arg[f.add]
                         remove == calls[i].arg[f.remove]
                     IN /\ Present(add) => add.items # <<>>
                        /\ Present(remove) => remove.items # <<>>
                        /\ O = D => ~Present(add) /\ ~Present(remove)
                        /\ (O = D /\ k = "allowed_principals") => FALSE
                        /\ (O \subseteq D /\ O # D) => Present(add) /\ ~Present(remove)
                        /\ (D \subseteq O /\ O # D) => ~Present(add) /\ Present(remove)

C14_Witness ==
    /\ rtype = "vpc"
    /\ op = "update"
    /\ pc = "done"
    /\ d.old.allowed_principals = {1}
    /\ d.new.allowed_principals = {1, 2}
    /\ d.old.network_load_balancer_arns = d.new.network_load_balancer_arns
    /\ \E i \in CallsOf(PermissionsApi, "update") :
          /\ calls[i].arg.AddAllowedPrincipals = List(<<2>>)
          /\ calls[i].arg.RemoveAllowedPrincipals = NilList

----------------------------------------------------------------------------
(* C15: under the assumption that every remote call returns and every timer *)
(* fires, a Create, Update or Delete of the VPC endpoint service that has    *)
(* been entered returns, with success or with an error, whatever labels the *)
(* refreshes report.                                                        *)

\* The steps of a handler that has been entered: its code goes on running,
\* the sleeps of WaitForState end and its timeout fires.
HandlerSteps ==
    \/ WaitForState_Delay
    \/ WaitForState_Refresh
    \/ WaitForState_Timeout
    \/ resourceAwsVpcEndpointServiceCreate_Permissions
    \/ resourceAwsVpcEndpointServiceUpdate_Permissions

SpecLive == Init /\ [][Next]_vars /\ WF_vars(HandlerSteps)

Running == pc \notin {"idle", "done"}

C15_Termination ==
    (op \in {"create", "update", "delete"} /\ Running)
        ~> (pc = "done" /\ result.kind \in {"nil", "error"})

\* A wait has ended at its timeout after refreshes that all reported a
\* Pending label.
C15_Witness ==
    /\ rtype = "vpc"
    /\ op = "delete"
    /\ pc = "done"
    /\ WaitError = "TimeoutError"
    /\ elapsed = Timeout
    /\ lastState = ServiceStateDeleting
    /\ Cardinality(Refreshes) > 2

----------------------------------------------------------------------------
(* C16: a failed remote call ends Create, Update and Delete.                *)

\* A response with which a remote call fails.
Failure(resp) == resp \in {"ApiError", "NotFound"}

\* The describe call of a refresh failed: the last refresh of the wait, the
\* earlier ones having reported a Pending label.
RefreshFailed == Refreshes # {} /\ Failure(lastResp)

\* The call at position i of the log, not a refresh, failed.
CallFailed(i) == calls[i].by # "poll" /\ Failure(calls[i].resp)

\* The not-found Delete tolerates: of its Delete call and of the refreshes of
\* its wait.
ToleratedOnDelete(resp) == op = "delete" /\ resp = "NotFound"

\* The not-found of the describe call of the final Read.
NotFoundInRead(i) ==
    /\ calls[i].by = "read"
    /\ calls[i].api = DescribeApi
    /\ calls[i].resp = "NotFound"

\* The local ID and the attributes set before the call at position i.
IdBefore(i) == IF op = "create" /\ i = 1 THEN "" ELSE SvcId
WrittenBefore(i) ==
    IF calls[i].api = "DescribeVpcEndpointServicePermissions" THEN ReadAttrsBefore ELSE {}

\* The handler returned an error at the call at position i, and left the
\* local ID and attributes as they were before it.
AbortedAt(i) ==
    /\ pc = "done"
    /\ result.kind = "error"
    /\ i = Len(calls)
    /\ d.id = IdBefore(i)
    /\ written = WrittenBefore(i)

\* C16 as stated: every failed remote call of Create, Update and Delete,
\* other than the not-found tolerated on Delete, makes the handler return an
\* error at that call, with no later call and the local ID and attributes as
\* before the call.
C16_EveryFailureAborts ==
    (rtype = "vpc" /\ op \in {"create", "update", "delete"}) =>
        /\ (RefreshFailed /\ ~ToleratedOnDelete(lastResp)) =>
              /\ calls[Len(calls)].by = "poll"
              /\ AbortedAt(Len(calls))
        /\ \A i \in 1..Len(calls) :
              (CallFailed(i) /\ ~ToleratedOnDelete(calls[i].resp)) => AbortedAt(i)

\* C16, amended: every failed remote call of Create, Update and Delete,
\* other than the not-found tolerated on Delete and the not-found of the
\* describe call of the final Read, makes the handler return an error at
\* that call, with no later call and the local ID and attributes as before
\* the call; on the not-found of the final Read's describe call, Create and
\* Update clear the local ID and return success, with no later call and no
\* attribute set.
C16_FailureAborts ==
    (rtype = "vpc" /\ op \in {"create", "update", "delete"}) =>
        /\ (RefreshFailed /\ ~ToleratedOnDelete(lastResp)) =>
              /\ calls[Len(calls)].by = "poll"
              /\ AbortedAt(Len(calls))
        /\ \A i \in 1..Len(calls) :
              /\ (CallFailed(i) /\ ~ToleratedOnDelete(calls[i].resp)
                               /\ ~NotFoundInRead(i)) => AbortedAt(i)
              /\ NotFoundInRead(i) =>
                    /\ pc = "done"
                    /\ result = Ok
                    /\ i = Len(calls)
                    /\ d.id = ""
                    /\ written = {}

\* The permissions call of an Update failed after a completed wait.
C16_Witness ==
    /\ rtype = "vpc"
    /\ op = "update"
    /\ pc = "done"
    /\ Refreshes # {}
    /\ calls[Len(calls)].api = PermissionsApi
    /\ calls[Len(calls)].resp = "ApiError"
    /\ ErrMsg = "Error modifying VPC Endpoint Service permissions: %s"
    /\ d.id = SvcId
    /\ written = {}

----------------------------------------------------------------------------
(* C17: when the refresh of Read reports `deleted`, `deleting` or `failed`, *)
(* Read clears the local ID and returns success, having set no attribute    *)
(* and issued no later call; so does the Create or Update that ends with    *)
(* that Read.                                                               *)

\* The describe call of Read at position i of the log, with a refreshed
\* state that is terminal.
ReadOfTerminalState(i) ==
    /\ calls[i].by = "read"
    /\ calls[i].api = DescribeApi
    /\ calls[i].resp \in TerminalStates

C17_ReadOfTerminalState ==
    (rtype = "vpc" /\ op \in {"read", "create", "update"}) =>
        \A i \in 1..Len(calls) :
            ReadOfTerminalState(i) =>
                /\ pc = "done"
                /\ result = Ok
                /\ d.id = ""
                /\ written = {}
                /\ i = Len(calls)

\* A Create whose wait ended on `available` and whose Read found the service
\* failed.
C17_Witness ==
    /\ rtype = "vpc"
    /\ op = "create"
    /\ pc = "done"
    /\ lastState = ServiceStateAvailable
    /\ calls[Len(calls)].by = "read"
    /\ calls[Len(calls)].resp = ServiceStateFailed
    /\ result = Ok
    /\ d.id = ""

----------------------------------------------------------------------------
(* C18: an Update of an S3 object copy issues a CopyObject call exactly     *)
(* when a copy_if key is set or a copy argument changed, and then as its    *)
(* first call; otherwise it issues no call, sets no attribute and keeps the *)
(* ID; when the CopyObject call fails it returns an error with no further   *)
(* call, no attribute set and the ID kept.                                  *)

CopyCalls == {i \in 1..Len(calls) : calls[i].api = "CopyObject"}

C18_CopyIfAndOnlyIf ==
    (rtype = "s3" /\ op = "update" /\ pc = "done") =>
        LET copies == d.copy_if # {} \/ d.changed \cap CopyArgs # {}
        IN /\ copies <=> (CopyCalls # {})
           /\ copies => CopyCalls = {1}
           /\ ~copies =>
                 /\ calls = <<>>
                 /\ written = {}
                 /\ d.id = S3Id
                 /\ result = Ok
           /\ (copies /\ calls[1].resp = "ApiError") =>
                 /\ result.kind = "error"
                 /\ Len(calls) = 1
                 /\ written = {}
                 /\ d.id = S3Id

\* A copy_if key is set and nothing changed: the copy is issued, and fails.
C18_Witness ==
    /\ rtype = "s3"
    /\ op = "update"
    /\ pc = "done"
    /\ d.copy_if = {"copy_if_none_match"}
    /\ d.changed = {}
    /\ CopyCalls = {1}
    /\ calls[1].resp = "ApiError"
    /\ result.kind = "error"

====
